---- MODULE Spec2Model ----
\* The authoritative game server of js13kserver (src/src/server.ts): the
\* entity store, the per-tick AI and removal sweep, the respawn timers, the
\* session registry and the per-session broadcast.
EXTENDS Integers, Sequences, FiniteSets, TLC

\* ---------------------------------------------------------------- bounds
\* Sockets that may ever connect (each connection is a new socket object).
MaxSockets == 2
\* Highest entity id a Bullet event of a client may consume.
MaxId == 8
\* Longest outbound event queue a session may accumulate.
MaxQueue == 2
\* Number of Bullet events in the multi-bullet payload of VolleyPayloads.
MaxVolley == 10
\* The health a client writes into the Bullet events of BulletPayloads.
BulletHealth == 2
\* Sockets that may ever connect to the rock-paper-scissors server.
MaxPlayers == 3
\* Rounds of rock-paper-scissors that may be scored.
MaxRounds == 2
\* Bullets the client of SpecFlight may fire in all.
MaxFlight == 3

\* ------------------------------------------------------- program constants
ENTITY_TYPE_PLAYER == 1
ENTITY_TYPE_BULLET == 2
ENTITY_TYPE_DAMAGE == 3
ENTITY_TYPE_SNAKE == 4
ENTITY_TYPE_SPIDER == 5
ENTITY_TYPE_MESSAGE == 6

\* JavaScript values that are not numbers, encoded as integers far outside
\* the range any coordinate, velocity, health or id takes in the model.
Undefined == -100000
\* The result of arithmetic on a non-number.
NaN == -100001
\* A value that is present but is not a number (a string such as "abc").
NonNumeric == -100002
\* An absent text field.
NoText == "undefined"

IsNumber(v) == v \notin {Undefined, NaN, NonNumeric}

\* a + b of JavaScript for the number fields of the model.
Plus(a, b) == IF IsNumber(a) /\ IsNumber(b) THEN a + b ELSE NaN

\* a - b of JavaScript.
Minus(a, b) == IF IsNumber(a) /\ IsNumber(b) THEN a - b ELSE NaN

\* Math.hypot(a, b) < limit, for integers and NaN (NaN < limit is false).
HypotLess(a, b, limit) ==
    /\ IsNumber(a)
    /\ IsNumber(b)
    /\ a * a + b * b < limit * limit

\* v || 100 for a health value: undefined, NaN and 0 are falsy.
OrDefault(v, d) == IF v \in {Undefined, NaN, 0} THEN d ELSE v

Sockets == 1..MaxSockets

\* The guesses of the rock-paper-scissors server.
GUESS_NO == 0
GUESS_ROCK == 1
GUESS_PAPER == 2
GUESS_SCISSORS == 3

RpsSockets == 1..MaxPlayers

\* ------------------------------------------------------------------ state
VARIABLES
    objects,       \* heap: object reference -> Entity (fields of types.ts)
    entities,      \* gameState.entities: sequence of object references
    users,         \* sequence of User {socket, entity, events}
    nextEntityId,  \* the id counter of addEntity
    timers,        \* pending respawn setTimeout callbacks, in firing order
    socketState,   \* per socket: "idle", "connected" or "disconnected"
    emitted,       \* the socket.emit calls of the last handler run
    hits,          \* the health reductions by bullets of the last handler run
    lastOp,        \* the last handler run and the socket it ran for
    wire,          \* per socket: the update messages in flight, each way
    rpsObjects,    \* rock-paper-scissors: socket -> its User {game, opponent, guess}
    rpsUsers,      \* rock-paper-scissors: the users array, as sockets
    rpsState,      \* per socket: "idle", "connected" or "disconnected"
    rpsEmitted,    \* the socket.emit calls of the last handler run
    storage,       \* the value stored under the key 'games'
    pending,       \* the storage operations in flight, oldest first
    scored,        \* the number of rounds scored so far
    reported       \* the count the last answered stat request reported

rpsVars == <<rpsObjects, rpsUsers, rpsState, rpsEmitted, storage, pending,
             scored, reported>>

gameVars == <<objects, entities, users, nextEntityId, timers, socketState,
              emitted, hits, wire>>

vars == <<objects, entities, users, nextEntityId, timers, socketState,
          emitted, hits, lastOp, wire, rpsObjects, rpsUsers, rpsState, rpsEmitted,
          storage, pending, scored, reported>>

\* An Entity record; absent optional fields hold Undefined / NoText.
Entity(type, x, y, health) ==
    [entityType |-> type, entityId |-> Undefined, parentId |-> Undefined,
     text |-> NoText, x |-> x, y |-> y, dx |-> Undefined, dy |-> Undefined,
     health |-> health, aggroEntityId |-> Undefined]

Range(s) == {s[i] : i \in 1..Len(s)}

\* array.indexOf(element), 1-based; 0 when absent (JavaScript's -1).
IndexOf(array, element) ==
    IF \E i \in 1..Len(array) : array[i] = element
    THEN CHOOSE i \in 1..Len(array) :
            /\ array[i] = element
            /\ \A j \in 1..(i - 1) : array[j] # element
    ELSE 0

\* array.splice(start, 1) with start the 0-based index or -1: a negative
\* start counts from the end, so -1 removes the last element.
Splice1(array, jsIndex) ==
    LET n == Len(array)
        start == IF jsIndex < 0
                 THEN (IF n + jsIndex < 0 THEN 0 ELSE n + jsIndex)
                 ELSE (IF jsIndex > n THEN n ELSE jsIndex)
    IN  IF start >= n THEN array
        ELSE SubSeq(array, 1, start) \o SubSeq(array, start + 2, n)

removeElement(array, element) ==
    Splice1(array, IndexOf(array, element) - 1)

\* The program state threaded through the synchronous code of one handler.
Cur ==
    [objects |-> objects, entities |-> entities, users |-> users,
     nextEntityId |-> nextEntityId, timers |-> timers, emitted |-> <<>>,
     hits |-> {}]

\* addEntity that does not advance the id counter.
addEntityNoIncrement(st, ref) ==
    [st EXCEPT
        !.objects = [@ EXCEPT ![ref] =
            [@ EXCEPT !.entityId = st.nextEntityId,
                      !.health = OrDefault(@, 100)]],
        !.entities = Append(@, ref)]

\* addEntity on an object that is already on the heap under reference ref.
addEntity(st, ref) ==
    [st EXCEPT
        !.objects = [@ EXCEPT ![ref] =
            [@ EXCEPT !.entityId = st.nextEntityId,
                      !.health = OrDefault(@, 100)]],
        !.nextEntityId = @ + 1,
        !.entities = Append(@, ref)]

\* Allocation of a new object: its reference is the id it is about to get,
\* which no other object ever had.
NewObject(st, entity) ==
    [st EXCEPT !.objects = [r \in (DOMAIN @) \cup {st.nextEntityId} |->
                                IF r = st.nextEntityId THEN entity ELSE @[r]]]

\* ------------------------------------------------------------------- AI
\* The collision test without the exemption of the bullet's parent.
bulletHitsParentToo(st, ref, oref) ==
    LET entity == st.objects[ref]
        other == st.objects[oref]
    IN  /\ other.entityId # entity.entityId
        /\ HypotLess(Minus(entity.x, other.x), Minus(entity.y, other.y), 8)

\* Whether the scan of doBulletAi counts the store entry oref as a collision
\* of the bullet ref: another id than the bullet's and its parent's, and
\* closer than 8.
bulletHits(st, ref, oref) ==
    LET entity == st.objects[ref]
        other == st.objects[oref]
    IN  /\ other.entityId # entity.entityId
        /\ other.entityId # entity.parentId
        /\ HypotLess(Minus(entity.x, other.x), Minus(entity.y, other.y), 8)

\* A scan that stops at the first collision.
bulletScanFirstOnly(st, ref) ==
    LET entity == st.objects[ref]
        all == {j \in 1..Len(st.entities) : bulletHits(st, ref, st.entities[j])}
        struck == {j \in all : \A k \in all : j <= k}
        times(r) == Cardinality({j \in struck : st.entities[j] = r})
    IN  [st EXCEPT
            !.objects = [r \in DOMAIN @ |->
                IF times(r) > 0
                THEN [@[r] EXCEPT !.health = Minus(@, 10 * times(r))]
                ELSE IF r = ref /\ struck # {}
                THEN [@[r] EXCEPT !.health = 0]
                ELSE @[r]],
            !.hits = @ \cup {[bullet |-> entity.entityId,
                              parent |-> entity.parentId,
                              victim |-> st.objects[st.entities[j]].entityId] :
                                j \in struck}]

\* The scan of doBulletAi over the store. No iteration changes what a later
\* one tests (ids and positions), so the loop is taken as a whole: every
\* colliding store entry costs its entity 10 health and one collision
\* zeroes the bullet's health.
bulletScan(st, ref) ==
    LET entity == st.objects[ref]
        struck == {j \in 1..Len(st.entities) : bulletHits(st, ref, st.entities[j])}
        times(r) == Cardinality({j \in struck : st.entities[j] = r})
    IN  [st EXCEPT
            !.objects = [r \in DOMAIN @ |->
                IF times(r) > 0
                THEN [@[r] EXCEPT !.health = Minus(@, 10 * times(r))]
                ELSE IF r = ref /\ struck # {}
                THEN [@[r] EXCEPT !.health = 0]
                ELSE @[r]],
            !.hits = @ \cup {[bullet |-> entity.entityId,
                              parent |-> entity.parentId,
                              victim |-> st.objects[st.entities[j]].entityId] :
                                j \in struck}]

\* A bullet AI without the final health--.
doBulletAiNoDecrement(st, ref) ==
    LET moved == [st EXCEPT !.objects = [@ EXCEPT
                        ![ref].x = Plus(@, st.objects[ref].dx),
                        ![ref].y = Plus(@, st.objects[ref].dy)]]
    IN  bulletScan(moved, ref)

doBulletAi(st, ref) ==
    LET moved == [st EXCEPT !.objects = [@ EXCEPT
                        ![ref].x = Plus(@, st.objects[ref].dx),
                        ![ref].y = Plus(@, st.objects[ref].dy)]]
        scanned == bulletScan(moved, ref)
    IN  [scanned EXCEPT !.objects = [@ EXCEPT ![ref].health = Minus(@, 1)]]

\* A scan in which a Player at the same distance replaces the one found.
RECURSIVE nearestScanLastWins(_, _, _, _, _)
nearestScanLastWins(st, ref, j, nearest, nearestSq) ==
    IF j > Len(st.entities) THEN nearest
    ELSE
        LET oref == st.entities[j]
            entity == st.objects[ref]
            other == st.objects[oref]
            ddx == Minus(entity.x, other.x)
            ddy == Minus(entity.y, other.y)
            closer == /\ other.entityType = ENTITY_TYPE_PLAYER
                      /\ other.entityId # entity.entityId
                      /\ IsNumber(ddx) /\ IsNumber(ddy)
                      /\ \/ ddx * ddx + ddy * ddy < nearestSq
                         \/ nearest # 0 /\ ddx * ddx + ddy * ddy = nearestSq
        IN  IF closer
            THEN nearestScanLastWins(st, ref, j + 1, oref, ddx * ddx + ddy * ddy)
            ELSE nearestScanLastWins(st, ref, j + 1, nearest, nearestSq)

\* The loop of findNearestPlayer from store index j on, carrying the nearest
\* reference found so far (0 for none) and its distance bound as a square.
RECURSIVE nearestScan(_, _, _, _, _)
nearestScan(st, ref, j, nearest, nearestSq) ==
    IF j > Len(st.entities) THEN nearest
    ELSE
        LET oref == st.entities[j]
            entity == st.objects[ref]
            other == st.objects[oref]
            ddx == Minus(entity.x, other.x)
            ddy == Minus(entity.y, other.y)
            closer == /\ other.entityType = ENTITY_TYPE_PLAYER
                      /\ other.entityId # entity.entityId
                      /\ IsNumber(ddx) /\ IsNumber(ddy)
                      /\ ddx * ddx + ddy * ddy < nearestSq
        IN  IF closer
            THEN nearestScan(st, ref, j + 1, oref, ddx * ddx + ddy * ddy)
            ELSE nearestScan(st, ref, j + 1, nearest, nearestSq)

\* A search that also accepts a Player at exactly maxDistance.
findNearestPlayerInclusive(st, ref, maxDistance) ==
    nearestScan(st, ref, 1, 0, maxDistance * maxDistance + 1)

\* The reference of the nearest Player closer than maxDistance, 0 for none.
findNearestPlayer(st, ref, maxDistance) ==
    nearestScan(st, ref, 1, 0, maxDistance * maxDistance)

\* entities.find(e => e.entityId === id): the first match, 0 for none.
findById(st, id) ==
    LET found == {j \in 1..Len(st.entities) : st.objects[st.entities[j]].entityId = id}
    IN  IF found = {} THEN 0
        ELSE st.entities[CHOOSE j \in found : \A k \in found : j <= k]

\* A walk that never steps down.
StepTowardUpOnly(a, b) ==
    IF IsNumber(a) /\ IsNumber(b) /\ a < b THEN a + 1 ELSE a

\* One axis of the spider's walk: a < b steps up, a > b steps down; a
\* comparison with a non-number is false.
StepToward(a, b) ==
    IF IsNumber(a) /\ IsNumber(b) /\ a < b THEN a + 1
    ELSE IF IsNumber(a) /\ IsNumber(b) /\ a > b THEN a - 1
    ELSE a

\* A spider that keeps a target it no longer finds.
doSpiderAiKeepStale(st, ref) ==
    LET entity == st.objects[ref]
    IN  IF entity.aggroEntityId # Undefined
        THEN LET pref == findById(st, entity.aggroEntityId)
             IN  IF pref # 0
                 THEN [st EXCEPT !.objects = [@ EXCEPT
                            ![ref].x = StepToward(@, st.objects[pref].x),
                            ![ref].y = StepToward(@, st.objects[pref].y)]]
                 ELSE st
        ELSE LET nearest == findNearestPlayer(st, ref, 40)
             IN  IF nearest # 0
                 THEN [st EXCEPT !.objects = [@ EXCEPT
                            ![ref].aggroEntityId = st.objects[nearest].entityId]]
                 ELSE st

\* A spider that turns to the nearest Player in its range in every step.
doSpiderAiReacquiring(st, ref) ==
    LET entity == st.objects[ref]
        nearest == findNearestPlayer(st, ref, 40)
    IN  IF entity.aggroEntityId # Undefined
        THEN LET pref == findById(st, entity.aggroEntityId)
             IN  IF pref # 0
                 THEN [st EXCEPT !.objects = [@ EXCEPT
                            ![ref].x = StepToward(@, st.objects[pref].x),
                            ![ref].y = StepToward(@, st.objects[pref].y),
                            ![ref].aggroEntityId =
                                IF nearest # 0 THEN st.objects[nearest].entityId
                                ELSE @]]
                 ELSE [st EXCEPT !.objects = [@ EXCEPT
                            ![ref].aggroEntityId = Undefined]]
        ELSE IF nearest # 0
             THEN [st EXCEPT !.objects = [@ EXCEPT
                        ![ref].aggroEntityId = st.objects[nearest].entityId]]
             ELSE st

doSpiderAi(st, ref) ==
    LET entity == st.objects[ref]
    IN  IF entity.aggroEntityId # Undefined
        THEN LET pref == findById(st, entity.aggroEntityId)
             IN  IF pref # 0
                 THEN [st EXCEPT !.objects = [@ EXCEPT
                            ![ref].x = StepToward(@, st.objects[pref].x),
                            ![ref].y = StepToward(@, st.objects[pref].y)]]
                 ELSE [st EXCEPT !.objects = [@ EXCEPT
                            ![ref].aggroEntityId = Undefined]]
        ELSE LET nearest == findNearestPlayer(st, ref, 40)
             IN  IF nearest # 0
                 THEN [st EXCEPT !.objects = [@ EXCEPT
                            ![ref].aggroEntityId = st.objects[nearest].entityId]]
                 ELSE st

doAi(st, ref) ==
    LET type == st.objects[ref].entityType
        st1 == IF type = ENTITY_TYPE_BULLET THEN doBulletAi(st, ref) ELSE st
    IN  IF type = ENTITY_TYPE_SPIDER THEN doSpiderAi(st1, ref) ELSE st1

\* ------------------------------------------------------------------ tick
\* Whether the tick schedules a respawn for a removed entity of this type.
Respawns(type) == type \in {ENTITY_TYPE_SNAKE, ENTITY_TYPE_SPIDER}

\* A loop body that removes the head of the store instead of the entity.
tickStepRemovingHead(st, i) ==
    LET ref == st.entities[i]
        st1 == doAi(st, ref)
    IN  IF st1.objects[ref].health <= 0
        THEN [st1 EXCEPT
                !.entities = Splice1(@, 0),
                !.timers = IF Respawns(st1.objects[ref].entityType)
                           THEN Append(@, ref) ELSE @]
        ELSE st1

\* The body of the tick's loop for store index i (1-based).
tickStep(st, i) ==
    LET ref == st.entities[i]
        st1 == doAi(st, ref)
    IN  IF st1.objects[ref].health <= 0
        THEN [st1 EXCEPT
                !.entities = removeElement(@, ref),
                !.timers = IF Respawns(st1.objects[ref].entityType)
                           THEN Append(@, ref) ELSE @]
        ELSE st1

\* for (i = length - 1; i >= 0; i--), here from 1-based index i down to 1.
\* The state after one iteration is bound as a value before the next.
RECURSIVE tickLoop(_, _)
tickLoop(st, i) ==
    IF i < 1 THEN st
    ELSE CHOOSE done \in {tickLoop(next, i - 1) : next \in {tickStep(st, i)}} : TRUE

\* The entities the loop reads at its index, in the order it reads them;
\* 0 stands for the undefined it reads beyond the end of the store.
RECURSIVE tickVisits(_, _)
tickVisits(st, i) ==
    IF i < 1 THEN <<>>
    ELSE IF i > Len(st.entities) THEN <<0>>
    ELSE CHOOSE seen \in {<<st.entities[i]>> \o tickVisits(next, i - 1) :
                            next \in {tickStep(st, i)}} : TRUE

\* A respawn that re-adds the entity as it was removed.
respawnAsRemoved(st, ref) == addEntity(st, ref)

\* The setTimeout callback of the tick for the object ref.
respawn(st, ref) ==
    addEntity([st EXCEPT !.objects = [@ EXCEPT ![ref].health = 20,
                                               ![ref].aggroEntityId = Undefined]],
              ref)

\* --------------------------------------------------------------- sessions
\* Index in st.users of the User whose socket is s; 0 when it was removed.
userIndex(st, s) ==
    IF \E k \in 1..Len(st.users) : st.users[k].socket = s
    THEN CHOOSE k \in 1..Len(st.users) : st.users[k].socket = s
    ELSE 0

\* The entity records of the store in store order: what emit serialises.
Snapshot(st) == [j \in 1..Len(st.entities) |-> st.objects[st.entities[j]]]

\* A sendUpdate that leaves the queue as it is.
sendUpdateKeepQueue(st, k) ==
    LET user == st.users[k]
        message == [socket |-> user.socket,
                    entities |-> Snapshot(st),
                    currentEntityId |-> st.objects[user.entity].entityId,
                    events |-> user.events]
    IN  [st EXCEPT !.emitted = Append(@, message)]

\* sendUpdate of the connection whose User is st.users[k].
sendUpdate(st, k) ==
    LET user == st.users[k]
        message == [socket |-> user.socket,
                    entities |-> Snapshot(st),
                    currentEntityId |-> st.objects[user.entity].entityId,
                    events |-> user.events]
    IN  [st EXCEPT !.emitted = Append(@, message),
                   !.users = [@ EXCEPT ![k].events = <<>>]]

\* A push that skips the sender, whose id the event carries as parentId.
pushToOthers(st, event) ==
    [st EXCEPT !.users = [k \in 1..Len(@) |->
        IF st.objects[@[k].entity].entityId = event.parentId THEN @[k]
        ELSE [@[k] EXCEPT !.events = Append(@, event)]]]

\* A push to the front of every queue.
pushToAllFront(st, event) ==
    [st EXCEPT !.users = [k \in 1..Len(@) |->
                            [@[k] EXCEPT !.events = <<event>> \o @]]]

\* other.events.push(event) for every User.
pushToAll(st, event) ==
    [st EXCEPT !.users = [k \in 1..Len(@) |->
                            [@[k] EXCEPT !.events = Append(@, event)]]]

\* An event loop that leaves the client's parentId on the event.
handleEventUnstamped(st, k, event) ==
    IF event.entityType = ENTITY_TYPE_BULLET
    THEN addEntity(NewObject(st, event), st.nextEntityId)
    ELSE IF event.entityType = ENTITY_TYPE_MESSAGE
    THEN pushToAll(st, event)
    ELSE st

\* An event loop that queues every event that is no Bullet.
handleEventQueueingRest(st, k, event) ==
    LET stamped == [event EXCEPT !.parentId = st.objects[st.users[k].entity].entityId]
    IN  IF stamped.entityType = ENTITY_TYPE_BULLET
        THEN addEntity(NewObject(st, stamped), st.nextEntityId)
        ELSE pushToAll(st, stamped)

\* One iteration of the update handler's event loop for the sender st.users[k].
handleEvent(st, k, event) ==
    LET stamped == [event EXCEPT !.parentId = st.objects[st.users[k].entity].entityId]
    IN  IF stamped.entityType = ENTITY_TYPE_BULLET
        THEN addEntity(NewObject(st, stamped), st.nextEntityId)
        ELSE IF stamped.entityType = ENTITY_TYPE_MESSAGE
        THEN pushToAll(st, stamped)
        ELSE st

RECURSIVE handleEvents(_, _, _, _)
handleEvents(st, k, events, n) ==
    IF n > Len(events) THEN st
    ELSE handleEvents(handleEvent(st, k, events[n]), k, events, n + 1)

\* A payload check that forgets y.
RejectedUnlessX(data) ==
    \/ ~data.present
    \/ data.x = Undefined

\* The payload check of the update handler: !data || x === undefined || ...
Rejected(data) ==
    \/ ~data.present
    \/ data.x = Undefined
    \/ data.y = Undefined

\* The update handler of the connection whose User is st.users[k].
handleUpdate(st, k, data) ==
    IF Rejected(data) THEN st
    ELSE
        LET ref == st.users[k].entity
            moved == [st EXCEPT !.objects = [@ EXCEPT
                        ![ref].x = data.x, ![ref].y = data.y,
                        ![ref].dx = data.dx, ![ref].dy = data.dy]]
            done == IF data.hasEvents
                    THEN handleEvents(moved, k, data.events, 1)
                    ELSE moved
        IN  sendUpdate(done, k)

\* A connection handler without the initial sendUpdate.
handleConnectNoBroadcast(st, s) ==
    LET ref == st.nextEntityId
        player == [Entity(ENTITY_TYPE_PLAYER, 0, 0, Undefined)
                     EXCEPT !.text = "Player" \o ToString(st.nextEntityId)]
        added == addEntity(NewObject(st, player), ref)
    IN  [added EXCEPT !.users =
            Append(@, [socket |-> s, entity |-> ref, events |-> <<>>])]

\* The connection handler (module.exports) for socket s.
handleConnect(st, s) ==
    LET ref == st.nextEntityId
        player == [Entity(ENTITY_TYPE_PLAYER, 0, 0, Undefined)
                     EXCEPT !.text = "Player" \o ToString(st.nextEntityId)]
        added == addEntity(NewObject(st, player), ref)
        pushed == [added EXCEPT !.users =
                     Append(@, [socket |-> s, entity |-> ref, events |-> <<>>])]
    IN  sendUpdate(pushed, Len(pushed.users))

\* A disconnect that leaves the player entity in the store.
handleDisconnectKeepEntity(st, k) ==
    LET user == st.users[k]
    IN  [st EXCEPT !.users = removeElement(@, user)]

\* The disconnect handler of the connection whose User is st.users[k].
handleDisconnect(st, k) ==
    LET user == st.users[k]
    IN  [st EXCEPT !.users = removeElement(@, user),
                   !.entities = removeElement(@, user.entity)]

\* sendUpdate for the Users from index k on.
RECURSIVE sendUpdates(_, _)
sendUpdates(st, k) ==
    IF k > Len(st.users) THEN st ELSE sendUpdates(sendUpdate(st, k), k + 1)

\* A tick that also broadcasts to every session.
handleTickBroadcasting(st) == sendUpdates(tickLoop(st, Len(st.entities)), 1)

\* The setInterval callback.
handleTick(st) == tickLoop(st, Len(st.entities))

\* The oldest pending setTimeout callback.
handleTimerKeepPending(st) == respawn(st, Head(st.timers))

handleTimer(st) == respawn([st EXCEPT !.timers = Tail(@)], Head(st.timers))

\* Objects still referenced by the store, a User or a pending timer; the
\* others are garbage.
Reachable(st) ==
    Range(st.entities) \cup Range(st.timers)
        \cup {st.users[k].entity : k \in 1..Len(st.users)}

\* The server's state after a handler returned st.
CommitServer(st) ==
    /\ objects' = [r \in Reachable(st) |-> st.objects[r]]
    /\ entities' = st.entities
    /\ users' = st.users
    /\ nextEntityId' = st.nextEntityId
    /\ timers' = st.timers
    /\ emitted' = st.emitted
    /\ hits' = st.hits
    /\ UNCHANGED rpsVars

\* The state after a handler returned st, the messages in flight left out
\* of the picture.
Commit(st) ==
    /\ CommitServer(st)
    /\ UNCHANGED wire

\* ---------------------------------------------------- rock-paper-scissors
\* No Game (null); a Game is {id, user1, user2}, the id standing for the
\* identity of the object.
NoGame == [id |-> 0, user1 |-> 0, user2 |-> 0]

\* A User as its constructor leaves it; opponent 0 is null.
NewUser == [game |-> NoGame, opponent |-> 0, guess |-> GUESS_NO]

\* The state threaded through the synchronous code of one handler.
RpsCur ==
    [objects |-> rpsObjects, users |-> rpsUsers, emitted |-> <<>>,
     pending |-> pending, scored |-> scored]

\* this.socket.emit(event, arg) of the User of socket u.
rpsEmit(st, u, event, arg) ==
    [st EXCEPT !.emitted = Append(@, [socket |-> u, event |-> event, arg |-> arg])]

\* The identity of a new Game: one no User refers to.
FreshGame(st) ==
    LET used == {st.objects[u].game.id : u \in DOMAIN st.objects}
    IN  1 + CHOOSE m \in used : \A n \in used : n <= m

\* User.start(game, opponent).
userStart(st, u, game, opponent) ==
    rpsEmit([st EXCEPT !.objects[u] =
                [game |-> game, opponent |-> opponent, guess |-> GUESS_NO]],
            u, "start", Undefined)

\* A Game.start() that starts the first user alone.
gameStartFirstOnly(st, game) ==
    userStart(st, game.user1, game, game.user2)

\* Game.start().
gameStart(st, game) ==
    userStart(userStart(st, game.user1, game, game.user2),
              game.user2, game, game.user1)

\* A User.end() that keeps the opponent.
userEndKeepOpponent(st, u) ==
    rpsEmit([st EXCEPT !.objects[u].game = NoGame, !.objects[u].guess = GUESS_NO],
            u, "end", Undefined)

\* User.end().
userEnd(st, u) == rpsEmit([st EXCEPT !.objects[u] = NewUser], u, "end", Undefined)

\* this.opponent?.guess of the User of socket u.
opponentGuess(st, u) ==
    IF st.objects[u].opponent = 0 THEN Undefined
    ELSE st.objects[st.objects[u].opponent].guess

win(st, u) == rpsEmit(st, u, "win", opponentGuess(st, u))

lose(st, u) == rpsEmit(st, u, "lose", opponentGuess(st, u))

draw(st, u) == rpsEmit(st, u, "draw", opponentGuess(st, u))

\* A comparison in which rock beats paper, paper scissors, scissors rock.
BeatsReversed(a, b) ==
    \/ a = GUESS_ROCK /\ b = GUESS_PAPER
    \/ a = GUESS_PAPER /\ b = GUESS_SCISSORS
    \/ a = GUESS_SCISSORS /\ b = GUESS_ROCK

\* Whether guess a beats guess b in Game.score.
Beats(a, b) ==
    \/ a = GUESS_ROCK /\ b = GUESS_SCISSORS
    \/ a = GUESS_PAPER /\ b = GUESS_ROCK
    \/ a = GUESS_SCISSORS /\ b = GUESS_PAPER

\* Game.score().
score(st, game) ==
    LET g1 == st.objects[game.user1].guess
        g2 == st.objects[game.user2].guess
    IN  IF Beats(g1, g2) THEN lose(win(st, game.user1), game.user2)
        ELSE IF Beats(g2, g1) THEN lose(win(st, game.user2), game.user1)
        ELSE draw(draw(st, game.user1), game.user2)

\* Game.ended().
ended(st, game) ==
    /\ st.objects[game.user1].guess # GUESS_NO
    /\ st.objects[game.user2].guess # GUESS_NO

\* The loop of findOpponent from index i (1-based) on.
RECURSIVE findOpponentFrom(_, _, _)
findOpponentFrom(st, u, i) ==
    IF i > Len(st.users) THEN st
    ELSE
        LET o == st.users[i]
        IN  IF u # o /\ st.objects[o].opponent = 0
            THEN findOpponentFrom(
                    gameStart(st, [id |-> FreshGame(st), user1 |-> u, user2 |-> o]),
                    u, i + 1)
            ELSE findOpponentFrom(st, u, i + 1)

findOpponent(st, u) == findOpponentFrom(st, u, 1)

\* removeUser(user).
removeUser(st, u) == [st EXCEPT !.users = removeElement(@, u)]

\* A setGuess that takes 1, 2 and 3 alone.
setGuessAcceptsChoicesOnly(st, u, guess) ==
    /\ st.objects[u].opponent # 0
    /\ guess \in {GUESS_ROCK, GUESS_PAPER, GUESS_SCISSORS}

\* Whether User.setGuess(guess) returns true: a comparison with a guess
\* that is no number (undefined, where the client sent none) is false.
setGuessAccepts(st, u, guess) ==
    ~(\/ st.objects[u].opponent = 0
      \/ IsNumber(guess) /\ guess <= GUESS_NO
      \/ IsNumber(guess) /\ guess > GUESS_SCISSORS)

\* User.setGuess(guess).
setGuess(st, u, guess) ==
    IF setGuessAccepts(st, u, guess)
    THEN [st EXCEPT !.objects[u].guess = guess]
    ELSE st

\* storage.get("games", 0) with its then-callback: a read in flight.
storageGet(st) ==
    [st EXCEPT !.pending = Append(@, [op |-> "get", value |-> 0])]

\* The connection handler (io) for socket s.
rpsConnect(st, s) ==
    findOpponent([st EXCEPT !.objects[s] = NewUser, !.users = Append(@, s)], s)

\* A disconnect handler that looks for no new opponent.
rpsDisconnectNoRematch(st, s) ==
    LET opponent == st.objects[s].opponent
        removed == removeUser(st, s)
    IN  IF opponent # 0
        THEN userEnd(removed, opponent)
        ELSE removed

\* The disconnect handler of socket s.
rpsDisconnect(st, s) ==
    LET opponent == st.objects[s].opponent
        removed == removeUser(st, s)
    IN  IF opponent # 0
        THEN findOpponent(userEnd(removed, opponent), opponent)
        ELSE removed

\* The guess handler of socket s.
rpsGuess(st, s, guess) ==
    LET st1 == setGuess(st, s, guess)
        game == st1.objects[s].game
    IN  IF setGuessAccepts(st, s, guess) /\ game # NoGame /\ ended(st1, game)
        THEN LET started == gameStart(score(st1, game), game)
             IN  storageGet([started EXCEPT !.scored = @ + 1])
        ELSE st1

\* The state after a handler of the rock-paper-scissors server returned st.
RpsCommit(st) ==
    /\ rpsObjects' = st.objects
    /\ rpsUsers' = st.users
    /\ rpsEmitted' = st.emitted
    /\ pending' = st.pending
    /\ scored' = st.scored
    /\ UNCHANGED gameVars

\* ----------------------------------------------------------------- inputs
\* Where a client may put its player: the spawn point and a point far from
\* every creature.
Points == {<<0, 0>>, <<100, 0>>}

\* Where a client may put a bullet: the spawn point of the players and a
\* point from which one step of the bullet reaches the first two snakes.
BulletPoints == {<<0, 0>>, <<196, 55>>}

\* The texts of Message events.
Texts == {"hi", "yo"}

\* A Bullet event: a position, the velocity and a health (Undefined for
\* the client of this repository, which sends none).
BulletEvent(p, health) ==
    [Entity(ENTITY_TYPE_BULLET, p[1], p[2], health) EXCEPT !.dx = 4, !.dy = 0]

MessageEvent(t) ==
    [Entity(ENTITY_TYPE_MESSAGE, 0, 0, Undefined) EXCEPT !.text = t]

\* An event of a type the server does not dispatch.
DamageEvent == Entity(ENTITY_TYPE_DAMAGE, 0, 0, Undefined)

Payload(x, y, events) ==
    [present |-> TRUE, x |-> x, y |-> y, dx |-> Undefined, dy |-> Undefined,
     hasEvents |-> TRUE, events |-> events]

\* A missing payload.
NoData == [Payload(Undefined, Undefined, <<>>) EXCEPT !.present = FALSE]

\* Payloads the handler must drop, each carrying an event.
BadPayloads ==
    {NoData,
     Payload(Undefined, 0, <<BulletEvent(<<0, 0>>, BulletHealth)>>),
     Payload(100, Undefined, <<MessageEvent("hi")>>)}

\* Payloads whose x or y is present but is no number.
NonNumericPayloads ==
    {Payload(NonNumeric, 0, <<>>), Payload(0, NonNumeric, <<>>)}

\* The moves and shots of Spec: a position and at most one Bullet event.
BulletPayloads ==
    {Payload(p[1], p[2], <<>>) : p \in Points}
        \cup {Payload(p[1], p[2], <<BulletEvent(q, BulletHealth)>>) :
                p \in Points, q \in BulletPoints}

\* The chat of SpecChat: a player that stays put and sends one Message.
ChatPayloads ==
    {Payload(0, 0, <<>>)} \cup {Payload(0, 0, <<MessageEvent(t)>>) : t \in Texts}

\* The payloads of SpecVolley: a player that stays put and fires MaxVolley
\* bullets at once.
VolleyPayloads ==
    {Payload(0, 0, <<>>)}
        \cup {Payload(0, 0, [n \in 1..MaxVolley |-> BulletEvent(q, Undefined)]) :
                q \in BulletPoints}

CountType(events, type) ==
    Cardinality({n \in 1..Len(events) : events[n].entityType = type})

\* What the clients may ask for: Bullet events while ids up to maxId are
\* left, Message events while every queue has room.
WithinBounds(data, maxId) ==
    \/ Rejected(data)
    \/ /\ \/ CountType(data.events, ENTITY_TYPE_BULLET) = 0
          \/ nextEntityId + CountType(data.events, ENTITY_TYPE_BULLET) - 1 <= maxId
       /\ \A k \in 1..Len(users) :
            Len(users[k].events) + CountType(data.events, ENTITY_TYPE_MESSAGE) <= MaxQueue

\* ---------------------------------------------------------------- actions
\* A handler run, as lastOp records it (socket 0: a timer callback).
Op(op, s) == [op |-> op, socket |-> s]

\* What arrived, told from the payload alone: "malformed" (no payload, or
\* x or y missing), "nonNumeric" (x or y present but no number) or "update".
InputKind(data) ==
    IF ~data.present \/ Undefined \in {data.x, data.y} THEN "malformed"
    ELSE IF ~(IsNumber(data.x) /\ IsNumber(data.y)) THEN "nonNumeric"
    ELSE "update"

Init ==
    LET empty == [objects |-> <<>>, entities |-> <<>>, users |-> <<>>,
                  nextEntityId |-> 1, timers |-> <<>>, emitted |-> <<>>,
                  hits |-> {}]
        spawn(st, e) == addEntity(NewObject(st, e), st.nextEntityId)
        s1 == spawn(empty, Entity(ENTITY_TYPE_SNAKE, 200, 50, 20))
        s2 == spawn(s1, Entity(ENTITY_TYPE_SNAKE, 200, 60, 20))
        s3 == spawn(s2, Entity(ENTITY_TYPE_SNAKE, 200, 70, 20))
        s4 == spawn(s3, Entity(ENTITY_TYPE_SPIDER, 220, 70, 40))
    IN  /\ objects = s4.objects
        /\ entities = s4.entities
        /\ users = s4.users
        /\ nextEntityId = s4.nextEntityId
        /\ timers = s4.timers
        /\ wire = [s \in Sockets |-> [down |-> <<>>, up |-> <<>>]]
        /\ emitted = s4.emitted
        /\ hits = s4.hits
        /\ socketState = [s \in Sockets |-> "idle"]
        /\ lastOp = Op("init", 0)
        /\ rpsObjects = [u \in RpsSockets |-> NewUser]
        /\ rpsUsers = <<>>
        /\ rpsState = [u \in RpsSockets |-> "idle"]
        /\ rpsEmitted = <<>>
        /\ storage = Undefined
        /\ pending = <<>>
        /\ scored = 0
        /\ reported = Undefined

\* A new socket connects; sockets are numbered in connection order.
Connect(s) ==
    /\ socketState[s] = "idle"
    /\ \A t \in Sockets : t < s => socketState[t] # "idle"
    /\ Commit(handleConnect(Cur, s))
    /\ socketState' = [socketState EXCEPT ![s] = "connected"]
    /\ lastOp' = Op("connect", s)

Disconnect(s) ==
    /\ socketState[s] = "connected"
    /\ Commit(handleDisconnect(Cur, userIndex(Cur, s)))
    /\ socketState' = [socketState EXCEPT ![s] = "disconnected"]
    /\ lastOp' = Op("disconnect", s)

Update(s, data) ==
    /\ socketState[s] = "connected"
    /\ Commit(handleUpdate(Cur, userIndex(Cur, s), data))
    /\ lastOp' = Op(InputKind(data), s)
    /\ UNCHANGED socketState

\* The result of the callback is bound as a value before it is committed.
Tick ==
    /\ \E st \in {handleTick(Cur)} : Commit(st)
    /\ lastOp' = Op("tick", 0)
    /\ UNCHANGED socketState

Respawn ==
    /\ timers # <<>>
    /\ Commit(handleTimer(Cur))
    /\ lastOp' = Op("respawn", 0)
    /\ UNCHANGED socketState

Next ==
    \/ \E s \in Sockets : Connect(s)
    \/ \E s \in Sockets : Disconnect(s)
    \/ \E s \in Sockets : \E data \in BulletPayloads :
            WithinBounds(data, MaxId) /\ Update(s, data)
    \/ Tick
    \/ Respawn

\* Combat: the clients move and fire single bullets.
Spec == Init /\ [][Next]_vars

\* The hunt: the clients stay put and fire single bullets at the snakes.
HuntPayloads == {Payload(0, 0, <<BulletEvent(<<196, 55>>, BulletHealth)>>)}

NextHunt ==
    \/ \E s \in Sockets : Connect(s)
    \/ \E s \in Sockets : Disconnect(s)
    \/ \E s \in Sockets : \E data \in HuntPayloads :
            WithinBounds(data, MaxId) /\ Update(s, data)
    \/ Tick
    \/ Respawn

\* The timers of the runtime fire: a pending respawn callback is run.
FairSpec == Init /\ [][NextHunt]_vars /\ WF_vars(Respawn)

\* Chat: the clients stay put and send Message events.
NextChat ==
    \/ \E s \in Sockets : Connect(s)
    \/ \E s \in Sockets : Disconnect(s)
    \/ \E s \in Sockets : \E data \in ChatPayloads :
            WithinBounds(data, MaxId) /\ Update(s, data)
    \/ Tick

SpecChat == Init /\ [][NextChat]_vars

\* Malformed input: the clients send one Message, or payloads without x or
\* y, or with an x or y that is no number.
InputPayloads ==
    {Payload(0, 0, <<MessageEvent("hi")>>)} \cup BadPayloads \cup NonNumericPayloads

NextInput ==
    \/ \E s \in Sockets : Connect(s)
    \/ \E s \in Sockets : Disconnect(s)
    \/ \E s \in Sockets : \E data \in InputPayloads :
            WithinBounds(data, MaxId) /\ Update(s, data)
    \/ Tick

SpecInput == Init /\ [][NextInput]_vars

\* Where the clients of SpecSpider put their players, coming from (0, 0):
\* at distance 41, exactly 40 and 39 from the spider's spawn point (220, 70).
SpiderPoints == {<<220, 29>>, <<220, 30>>, <<220, 31>>}

SpiderPayloads == {Payload(p[1], p[2], <<>>) : p \in SpiderPoints}

\* The spider's range: the clients move around the spider and fire nothing.
NextSpider ==
    \/ \E s \in Sockets : Connect(s)
    \/ \E s \in Sockets : Disconnect(s)
    \/ \E s \in Sockets : \E data \in SpiderPayloads :
            WithinBounds(data, MaxId) /\ Update(s, data)
    \/ Tick

SpecSpider == Init /\ [][NextSpider]_vars

\* Where the clients of SpecWalk put their players, coming from (0, 0):
\* two points at the same distance from the spider's spawn point (220, 70),
\* one up and to the right and one down and to the left, and a nearer one.
WalkPoints == {<<223, 68>>, <<218, 73>>, <<220, 71>>}

WalkPayloads == {Payload(p[1], p[2], <<>>) : p \in WalkPoints}

\* The spider's walk: the clients move around the spider and fire nothing.
NextWalk ==
    \/ \E s \in Sockets : Connect(s)
    \/ \E s \in Sockets : Disconnect(s)
    \/ \E s \in Sockets : \E data \in WalkPayloads :
            WithinBounds(data, MaxId) /\ Update(s, data)
    \/ Tick

SpecWalk == Init /\ [][NextWalk]_vars

\* The chat of SpecOrder: that of SpecChat, and two Messages in one update.
OrderPayloads ==
    ChatPayloads
        \cup {Payload(0, 0, <<MessageEvent(t), MessageEvent(u)>>) :
                t, u \in Texts}

\* Conversation: the clients send one or two Messages at a time.
NextOrder ==
    \/ \E s \in Sockets : Connect(s)
    \/ \E s \in Sockets : Disconnect(s)
    \/ \E s \in Sockets : \E data \in OrderPayloads :
            WithinBounds(data, MaxId) /\ Update(s, data)
    \/ Tick

SpecOrder == Init /\ [][NextOrder]_vars

\* ------------------------------------------------------------- the client
\* A client that answers no broadcast.
clientOnUpdateSilent(data, player) == <<>>

\* The update handler of the client: the updates it emits for the broadcast
\* data while its player object is player. The server sends an object in
\* every broadcast, so that !data is false.
clientOnUpdate(data, player) ==
    IF ~data.hasEntities THEN <<>> ELSE <<player>>

\* The player object of a client, which starts at (16, 16) and moves by 2
\* per frame while a key is down, with no event waiting to be sent.
ClientPlayers == {Payload(16, 16, <<>>), Payload(18, 16, <<>>)}

\* A broadcast as it travels, reduced to what the client's handler tests
\* and reads: sendUpdate spreads gameState into the message, whose entities
\* are an array at all times.
Wired(message) == [hasEntities |-> TRUE, events |-> message.events]

\* The broadcasts a handler run emitted to socket t.
Sent(st, t) ==
    LET mine == SelectSeq(st.emitted, LAMBDA m : m.socket = t)
    IN  [j \in 1..Len(mine) |-> Wired(mine[j])]

\* The broadcasts of a handler run go on the wire of their sockets.
Transmit(st) ==
    [t \in Sockets |-> [wire[t] EXCEPT !.down = @ \o Sent(st, t)]]

\* A socket connects, and the first broadcast leaves for its client.
WireConnect(s) ==
    /\ socketState[s] = "idle"
    /\ \A t \in Sockets : t < s => socketState[t] # "idle"
    /\ \E st \in {handleConnect(Cur, s)} :
            CommitServer(st) /\ wire' = Transmit(st)
    /\ socketState' = [socketState EXCEPT ![s] = "connected"]
    /\ lastOp' = Op("connect", s)

\* The client of socket s receives the oldest broadcast in flight to it.
WireReceive(s, player) ==
    /\ socketState[s] = "connected"
    /\ wire[s].down # <<>>
    /\ wire' = [wire EXCEPT ![s] =
                    [down |-> Tail(@.down),
                     up |-> @.up \o clientOnUpdate(Head(@.down), player)]]
    /\ lastOp' = Op("receive", s)
    /\ UNCHANGED <<objects, entities, users, nextEntityId, timers,
                   socketState, emitted, hits, rpsVars>>

\* The server receives the oldest update in flight from socket s.
WireUpdate(s) ==
    /\ socketState[s] = "connected"
    /\ wire[s].up # <<>>
    /\ \E st \in {handleUpdate(Cur, userIndex(Cur, s), Head(wire[s].up))} :
            /\ CommitServer(st)
            /\ wire' = [Transmit(st) EXCEPT ![s].up = Tail(@)]
    /\ lastOp' = Op(InputKind(Head(wire[s].up)), s)
    /\ UNCHANGED socketState

\* The connection of socket s closes: what is in flight on it is lost.
WireDisconnect(s) ==
    /\ socketState[s] = "connected"
    /\ \E st \in {handleDisconnect(Cur, userIndex(Cur, s))} :
            /\ CommitServer(st)
            /\ wire' = [Transmit(st) EXCEPT ![s] = [down |-> <<>>, up |-> <<>>]]
    /\ socketState' = [socketState EXCEPT ![s] = "disconnected"]
    /\ lastOp' = Op("disconnect", s)

NextWire ==
    \/ \E s \in Sockets : WireConnect(s)
    \/ \E s \in Sockets : \E player \in ClientPlayers : WireReceive(s, player)
    \/ \E s \in Sockets : WireUpdate(s)
    \/ \E s \in Sockets : WireDisconnect(s)
    \/ Tick

\* Server and clients over a reliable transport: a message in flight on an
\* open connection is delivered and its handler runs.
SpecWire ==
    /\ Init
    /\ [][NextWire]_vars
    /\ \A s \in Sockets :
        /\ WF_vars(\E player \in ClientPlayers : WireReceive(s, player))
        /\ WF_vars(WireUpdate(s))

\* An event in which the client claims the ids of the first player.
Forged(event) == [event EXCEPT !.entityId = 5, !.parentId = 5]

\* The events of SpecDispatch: a forged Bullet that flies far from every
\* entity, a forged Message, and one event of each type the server does
\* not dispatch, the last of a type that does not exist.
DispatchEvents ==
    {Forged(BulletEvent(<<100, 0>>, 1)),
     Forged(MessageEvent("hi")),
     DamageEvent,
     Entity(ENTITY_TYPE_PLAYER, 0, 0, Undefined),
     Entity(ENTITY_TYPE_SNAKE, 0, 0, Undefined),
     Entity(ENTITY_TYPE_SPIDER, 0, 0, Undefined),
     Entity(7, 0, 0, Undefined)}

\* A player that stays put and sends no event, one event of any type, or
\* two events of different types of which one is a Message.
DispatchPayloads ==
    {Payload(0, 0, <<>>)}
        \cup {Payload(0, 0, <<e>>) : e \in DispatchEvents}
        \cup {Payload(0, 0, <<e, f>>) :
                e \in {d \in DispatchEvents : d.entityType \in
                        {ENTITY_TYPE_BULLET, ENTITY_TYPE_DAMAGE}},
                f \in {d \in DispatchEvents : d.entityType = ENTITY_TYPE_MESSAGE}}
        \cup {Payload(0, 0, <<f, e>>) :
                e \in {d \in DispatchEvents : d.entityType = ENTITY_TYPE_BULLET},
                f \in {d \in DispatchEvents : d.entityType = ENTITY_TYPE_MESSAGE}}

\* Ids for the creatures, for every player and for one Bullet more.
DispatchMaxId == 4 + MaxSockets + 1

\* Dispatch: the clients send events of every type, between two ticks.
NextDispatch ==
    \/ \E s \in Sockets : Connect(s)
    \/ \E s \in Sockets : Disconnect(s)
    \/ \E s \in Sockets : \E data \in DispatchPayloads :
            WithinBounds(data, DispatchMaxId) /\ Update(s, data)

SpecDispatch == Init /\ [][NextDispatch]_vars

\* The healths a Bullet event may carry: none, zero and BulletHealth.
SpawnHealths == {Undefined, 0, BulletHealth}

\* The payloads of SpecSpawn: a player that stays put and fires one bullet
\* at the snakes.
SpawnPayloads ==
    {Payload(0, 0, <<>>)}
        \cup {Payload(0, 0, <<BulletEvent(<<196, 55>>, h)>>) : h \in SpawnHealths}

\* The ids left for one bullet once every socket has connected.
SpawnMaxId == 4 + MaxSockets + 1

\* Spawning: the clients fire one bullet with or without a health.
NextSpawn ==
    \/ \E s \in Sockets : Connect(s)
    \/ \E s \in Sockets : Disconnect(s)
    \/ \E s \in Sockets : \E data \in SpawnPayloads :
            WithinBounds(data, SpawnMaxId) /\ Update(s, data)
    \/ Tick

SpecSpawn == Init /\ [][NextSpawn]_vars

\* The payloads of SpecFlight: the player stays at its spawn point and fires
\* one bullet or two at once from there, as the client does, with no health.
FlightPayloads ==
    {Payload(0, 0, <<>>),
     Payload(0, 0, <<BulletEvent(<<0, 0>>, Undefined)>>),
     Payload(0, 0, <<BulletEvent(<<0, 0>>, Undefined), BulletEvent(<<0, 0>>, Undefined)>>)}

\* The ids of the one player and the bullets of SpecFlight.
FlightMaxId == 5 + MaxFlight

\* Flight: one client, which fires when none of its bullets is in flight.
NextFlight ==
    \/ Connect(1)
    \/ \E data \in FlightPayloads :
            /\ \A r \in Range(entities) : objects[r].entityType # ENTITY_TYPE_BULLET
            /\ WithinBounds(data, FlightMaxId)
            /\ Update(1, data)
    \/ Tick

\* The interval timer of the tick keeps firing.
SpecFlight == Init /\ [][NextFlight]_vars /\ WF_vars(Tick)

\* The ids left for one volley once every socket has connected.
VolleyMaxId == 4 + MaxSockets + MaxVolley

\* Volleys: the clients stay put and fire MaxVolley bullets at once.
NextVolley ==
    \/ \E s \in Sockets : Connect(s)
    \/ \E s \in Sockets : Disconnect(s)
    \/ \E s \in Sockets : \E data \in VolleyPayloads :
            WithinBounds(data, VolleyMaxId) /\ Update(s, data)
    \/ Tick
    \/ Respawn

SpecVolley == Init /\ [][NextVolley]_vars

\* The guesses a client may send: the three valid ones, none and one
\* beyond scissors.
Guesses == 0..4

\* A socket connects to the rock-paper-scissors server.
RpsConnect(s) ==
    /\ rpsState[s] = "idle"
    /\ \A t \in RpsSockets : t < s => rpsState[t] # "idle"
    /\ RpsCommit(rpsConnect(RpsCur, s))
    /\ rpsState' = [rpsState EXCEPT ![s] = "connected"]
    /\ lastOp' = Op("rpsConnect", s)
    /\ UNCHANGED <<storage, reported>>

RpsDisconnect(s) ==
    /\ rpsState[s] = "connected"
    /\ RpsCommit(rpsDisconnect(RpsCur, s))
    /\ rpsState' = [rpsState EXCEPT ![s] = "disconnected"]
    /\ lastOp' = Op("rpsDisconnect", s)
    /\ UNCHANGED <<storage, reported>>

RpsGuess(s, guess) ==
    /\ rpsState[s] = "connected"
    /\ scored < MaxRounds
    /\ RpsCommit(rpsGuess(RpsCur, s, guess))
    /\ lastOp' = Op("guess", s)
    /\ UNCHANGED <<rpsState, storage, reported>>

\* The stat endpoint: a read of 'games' whose completion answers the request.
Stat ==
    /\ \A i \in 1..Len(pending) : pending[i].op # "stat"
    /\ pending' = Append(pending, [op |-> "stat", value |-> 0])
    /\ rpsEmitted' = <<>>
    /\ lastOp' = Op("stat", 0)
    /\ UNCHANGED <<gameVars, rpsObjects, rpsUsers, rpsState, storage, scored, reported>>

\* What storage.get("games", 0) resolves to.
Stored == IF storage = Undefined THEN 0 ELSE storage

\* The oldest storage operation in flight completes: a get of the guess
\* handler resolves and its callback calls storage.set("games", games + 1),
\* a set writes its value, a get of stat resolves and answers the request.
StorageStep ==
    /\ pending # <<>>
    /\ LET head == Head(pending)
       IN  /\ pending' = IF head.op = "get"
                         THEN Append(Tail(pending), [op |-> "set", value |-> Stored + 1])
                         ELSE Tail(pending)
           /\ storage' = IF head.op = "set" THEN head.value ELSE storage
           /\ reported' = IF head.op = "stat" THEN Stored ELSE reported
           /\ lastOp' = Op(head.op, 0)
    /\ rpsEmitted' = <<>>
    /\ UNCHANGED <<gameVars, rpsObjects, rpsUsers, rpsState, scored>>

NextRps ==
    \/ \E s \in RpsSockets : RpsConnect(s)
    \/ \E s \in RpsSockets : RpsDisconnect(s)
    \/ \E s \in RpsSockets : \E guess \in Guesses : RpsGuess(s, guess)
    \/ Stat
    \/ StorageStep

\* What a client may send as its guess: the integers of Guesses, and
\* nothing (undefined).
GuessInputs == Guesses \cup {Undefined}

\* The matchmaker alone: the storage operations stay in flight.
NextMatch ==
    \/ \E s \in RpsSockets : RpsConnect(s)
    \/ \E s \in RpsSockets : RpsDisconnect(s)
    \/ \E s \in RpsSockets : \E guess \in GuessInputs : RpsGuess(s, guess)

SpecMatch == Init /\ [][NextMatch]_vars

\* The rock-paper-scissors server with its storage.
SpecRps == Init /\ [][NextRps]_vars

\* ----------------------------------------------------------------- claims
\* The User of socket s in the current state (s is connected).
UserOf(s) == users[userIndex(Cur, s)]

InStore(ref) == ref \in Range(entities)

IsType(ref, type) == objects[ref].entityType = type

\* C1: removing an entity that is not in the store is a no-op: when a
\* session disconnects after the tick already removed its player entity,
\* the store is left exactly as it was.
C1_RemoveAbsentIsNoOp ==
    [][\A s \in Sockets :
        (/\ socketState[s] = "connected"
         /\ lastOp' = Op("disconnect", s)
         /\ ~InStore(UserOf(s).entity))
        => entities' = entities]_vars

\* C3: every session in users has exactly one Player entity in the store,
\* its own, for as long as it is connected.
C3_OnePlayerPerSession ==
    \A k \in 1..Len(users) :
        /\ Cardinality({j \in 1..Len(entities) : entities[j] = users[k].entity}) = 1
        /\ IsType(users[k].entity, ENTITY_TYPE_PLAYER)

\* C4: an entity whose health reached <= 0 during a tick, also by a bullet
\* processed in that tick, is out of the store when the tick completes.
C4_DeadRemovedBySameTick ==
    [][lastOp'.op = "tick"
        => \A ref \in Range(entities') : objects'[ref].health > 0]_vars

\* The objects that get an id in this step: new ones and re-added ones.
Issued ==
    {r \in DOMAIN objects' :
        \/ r \notin DOMAIN objects
        \/ objects'[r].entityId # objects[r].entityId}

StoreIdsDistinct ==
    \A i, j \in 1..Len(entities) :
        i # j => objects[entities[i]].entityId # objects[entities[j]].entityId

\* C2: every id addEntity issues is greater than every id issued before
\* (all of which lie below nextEntityId), the ids of one step differ from
\* each other, and no two entities in the store share an id.
C2_IdsIncreaseNeverReused ==
    /\ [](StoreIdsDistinct /\ \A r \in DOMAIN objects : objects[r].entityId < nextEntityId)
    /\ [][/\ nextEntityId' = nextEntityId + Cardinality(Issued)
          /\ \A r \in Issued :
                /\ objects'[r].entityId >= nextEntityId
                /\ objects'[r].entityId < nextEntityId'
          /\ \A q, r \in Issued :
                q # r => objects'[q].entityId # objects'[r].entityId]_vars

\* Two bullets of different players, both spawned since the last tick.
C2_Witness ==
    \E q, r \in Range(entities) :
        /\ IsType(q, ENTITY_TYPE_BULLET) /\ IsType(r, ENTITY_TYPE_BULLET)
        /\ objects[q].parentId # objects[r].parentId
        /\ objects[q].health = BulletHealth /\ objects[r].health = BulletHealth
        /\ objects[q].entityId < objects[r].entityId

\* C5: no bullet reduces the health of the entity whose id is its parentId,
\* nor counts its own store entry as a collision; in a tick every entity
\* that is no bullet loses exactly 10 health per recorded collision.
C5_BulletSparesParentAndSelf ==
    [][lastOp'.op = "tick" =>
        /\ \A h \in hits' : h.victim # h.parent /\ h.victim # h.bullet
        /\ \A r \in Range(entities) :
            ~IsType(r, ENTITY_TYPE_BULLET) =>
                objects'[r].health = objects[r].health
                    - 10 * Cardinality({h \in hits' : h.victim = objects[r].entityId})]_vars

\* After a tick: a bullet within 8 of its parent, which is unharmed, in a
\* store where another bullet did hit something.
C5_Witness ==
    /\ lastOp.op = "tick"
    /\ hits # {}
    /\ \E b, p \in Range(entities) :
        /\ IsType(b, ENTITY_TYPE_BULLET)
        /\ objects[p].entityId = objects[b].parentId
        /\ HypotLess(objects[b].x - objects[p].x, objects[b].y - objects[p].y, 8)
        /\ objects[p].health = 100

\* The snakes and the spider: the objects created at server start.
Creatures == 1..4

\* C6: a Snake or Spider the tick removed (its respawn is pending) comes
\* back into the store, and it does so with health 20 and a newly issued id.
C6_CreatureRespawns ==
    /\ \A c \in Creatures : (c \in Range(timers)) ~> InStore(c)
    /\ [][\A c \in Creatures :
            (c \in Range(timers) /\ c \in Range(entities')) =>
                /\ objects'[c].health = 20
                /\ objects'[c].entityId >= nextEntityId
                /\ objects'[c].entityId # objects[c].entityId]_vars

\* A respawned creature is in the store under a new id.
C6_Witness ==
    /\ lastOp.op = "respawn"
    /\ \E c \in Creatures :
        /\ InStore(c)
        /\ objects[c].entityId # c
        /\ objects[c].health = 20

\* C7: an update whose payload is absent or lacks x or y changes neither
\* the heap, the store, the queues, the id counter nor the timers, and
\* sends no broadcast.
C7_MalformedUpdateChangesNothing ==
    [][lastOp'.op = "malformed" =>
        /\ UNCHANGED <<objects, entities, users, nextEntityId, timers>>
        /\ emitted' = <<>>]_vars

\* A malformed payload was handled while two sessions were connected, one
\* of them with a queued Message.
C7_Witness ==
    /\ lastOp.op = "malformed"
    /\ Len(users) = 2
    /\ \E k \in 1..Len(users) : users[k].events # <<>>

\* C8: a payload whose x or y is present but no number is discarded, so
\* no player entity ever holds a position that is not a number.
C8_OnlyNumericPositions ==
    \A r \in DOMAIN objects :
        IsType(r, ENTITY_TYPE_PLAYER) => IsNumber(objects[r].x) /\ IsNumber(objects[r].y)

InSeq(e, q) == \E i \in 1..Len(q) : q[i] = e

\* The broadcasts of the last handler run that went to socket s.
SentTo(s) == {i \in 1..Len(emitted) : emitted[i].socket = s}

\* The step handles the valid update of socket s that submits Message t:
\* the message, stamped with the sender's id, is in the broadcast that
\* answers the update and at the end of every other session's queue.
SubmitDelivers(s, t) ==
    LET m == [MessageEvent(t) EXCEPT !.parentId = objects[UserOf(s).entity].entityId]
    IN  Update(s, Payload(0, 0, <<MessageEvent(t)>>)) =>
            /\ Len(emitted') = 1
            /\ emitted'[1].socket = s
            /\ InSeq(m, emitted'[1].events)
            /\ \A k \in 1..Len(users) :
                users[k].socket # s =>
                    /\ users'[k].socket = users[k].socket
                    /\ users'[k].events = Append(users[k].events, m)

\* A queued event stays queued until its session disconnects or a
\* broadcast to that session carries it.
QueuedUntilSent ==
    \A k \in 1..Len(users) : \A i \in 1..Len(users[k].events) :
        LET u == users[k].socket
            e == users[k].events[i]
        IN  \/ socketState'[u] = "disconnected"
            \/ \E k2 \in 1..Len(users') :
                  users'[k2].socket = u /\ InSeq(e, users'[k2].events)
            \/ \E j \in 1..Len(emitted') :
                  emitted'[j].socket = u /\ InSeq(e, emitted'[j].events)

\* C9: a Message submitted by a session in a valid update is in the next
\* broadcast to every session connected at that time, the sender included.
C9_MessageReachesEverySession ==
    [][/\ \A s \in Sockets : \A t \in Texts : SubmitDelivers(s, t)
       /\ QueuedUntilSent]_vars

\* A broadcast to socket 2 carries a Message of socket 1's player.
C9_Witness ==
    /\ Len(emitted) = 1
    /\ emitted[1].socket = 2
    /\ Len(users) = 2
    /\ \E i \in 1..Len(emitted[1].events) :
        /\ emitted[1].events[i].entityType = ENTITY_TYPE_MESSAGE
        /\ emitted[1].events[i].parentId = objects[users[1].entity].entityId
        /\ users[1].socket = 1

\* C10: a handler run sends socket s one broadcast when it is the connect
\* of s or an update of s whose payload has x and y, and none otherwise:
\* so the broadcasts to s number 1 plus its accepted updates.
C10_OneBroadcastPerConnectAndUpdate ==
    \A s \in Sockets :
        Cardinality(SentTo(s)) =
            IF lastOp \in {Op("connect", s), Op("update", s), Op("nonNumeric", s)}
            THEN 1 ELSE 0

\* An accepted update of socket 1 while socket 2 is connected too.
C10_Witness ==
    /\ lastOp = Op("update", 1)
    /\ Len(users) = 2
    /\ Cardinality(SentTo(1)) = 1
    /\ SentTo(2) = {}

IsMessage(e) == e.entityType = ENTITY_TYPE_MESSAGE

\* The Message events of a payload, stamped with the sender's id.
Submitted(data, id) ==
    LET stamped == [n \in 1..Len(data.events) |->
                        [data.events[n] EXCEPT !.parentId = id]]
    IN  SelectSeq(stamped, IsMessage)

\* The step handles the valid update data of socket s: its one broadcast
\* carries the queue of s as it stood plus what the update submits, the
\* queue of s is empty afterwards, and every other queue only gains what
\* the update submits.
BroadcastDrains(s, data) ==
    LET k == userIndex(Cur, s)
        sub == Submitted(data, objects[users[k].entity].entityId)
    IN  Update(s, data) =>
            /\ Len(emitted') = 1
            /\ emitted'[1].socket = s
            /\ emitted'[1].events = users[k].events \o sub
            /\ Len(users') = Len(users)
            /\ \A k2 \in 1..Len(users) :
                /\ users'[k2].socket = users[k2].socket
                /\ users'[k2].events =
                        IF k2 = k THEN <<>> ELSE users[k2].events \o sub

\* C11: a broadcast to a session carries exactly the events queued for it
\* since its previous broadcast and leaves its queue empty, so that no
\* event is delivered to it twice; the broadcast changes no other queue
\* (the first broadcast of a session, at connect, carries no event).
C11_BroadcastDrainsOwnQueue ==
    [][/\ \A s \in Sockets : \A data \in ChatPayloads : BroadcastDrains(s, data)
       /\ \A s \in Sockets : lastOp' = Op("connect", s) =>
            /\ Len(emitted') = 1
            /\ emitted'[1].events = <<>>
            /\ users' = Append(users, users'[Len(users')])
            /\ users'[Len(users')].events = <<>>
       /\ \A j \in 1..Len(emitted') : \A k \in 1..Len(users') :
            users'[k].socket = emitted'[j].socket => users'[k].events = <<>>]_vars

\* The update of socket 2 was answered by a broadcast of two events, one
\* queued before and one it submitted, which is now queued for socket 1.
C11_Witness ==
    /\ lastOp = Op("update", 2)
    /\ Len(emitted) = 1
    /\ Len(emitted[1].events) = 2
    /\ \E k \in 1..Len(users) : users[k].socket = 2 /\ users[k].events = <<>>
    /\ \E k \in 1..Len(users) : users[k].socket = 1 /\ users[k].events # <<>>

\* The Players in the store closer than limit to the entity ref.
PlayersWithin(ref, limit) ==
    {p \in Range(entities) :
        /\ IsType(p, ENTITY_TYPE_PLAYER)
        /\ HypotLess(Minus(objects[ref].x, objects[p].x),
                     Minus(objects[ref].y, objects[p].y), limit)}

Spiders == {r \in Range(entities) : IsType(r, ENTITY_TYPE_SPIDER)}

\* C12: in its AI step a spider without a target acquires a Player only if
\* that Player is closer than 40 (a Player at 40 or more is never acquired),
\* and it does acquire one when some Player is closer than 40. The store at
\* the spider's step is the store before the tick: no Player leaves it.
C12_AggroOnlyWithin40 ==
    [][lastOp'.op = "tick" =>
        \A sp \in Spiders :
            objects[sp].aggroEntityId = Undefined =>
                IF PlayersWithin(sp, 40) = {}
                THEN objects'[sp].aggroEntityId = Undefined
                ELSE \E p \in PlayersWithin(sp, 40) :
                        objects'[sp].aggroEntityId = objects[p].entityId]_vars

\* After a tick the spider, still at its spawn point, targets the Player at
\* distance 39 while another Player stands at distance exactly 40.
C12_Witness ==
    /\ lastOp.op = "tick"
    /\ \E sp \in Spiders : \E p, q \in Range(entities) :
        /\ objects[sp].x = 220 /\ objects[sp].y = 70
        /\ IsType(p, ENTITY_TYPE_PLAYER) /\ IsType(q, ENTITY_TYPE_PLAYER)
        /\ objects[p].x = 220 /\ objects[p].y = 31
        /\ objects[q].x = 220 /\ objects[q].y = 30
        /\ objects[sp].aggroEntityId = objects[p].entityId

\* The spider's target is the id of no entity in the store.
StaleTarget(sp) ==
    /\ objects[sp].aggroEntityId # Undefined
    /\ \A r \in Range(entities) : objects[r].entityId # objects[sp].aggroEntityId

\* C13: a spider whose target is no longer in the store clears the target
\* in its next AI step and does not move in that step.
C13_StaleTargetCleared ==
    [][lastOp'.op = "tick" =>
        \A sp \in Spiders :
            StaleTarget(sp) =>
                /\ objects'[sp].aggroEntityId = Undefined
                /\ objects'[sp].x = objects[sp].x
                /\ objects'[sp].y = objects[sp].y]_vars

\* After a tick the spider, which had walked towards a Player that has
\* since disconnected, has no target although a Player is in its range.
C13_Witness ==
    /\ lastOp.op = "tick"
    /\ \E s \in Sockets : socketState[s] = "disconnected"
    /\ \E sp \in Spiders :
        /\ objects[sp].aggroEntityId = Undefined
        /\ objects[sp].y < 70
        /\ PlayersWithin(sp, 40) # {}

\* The step handles the update data of socket s, which carries one Bullet
\* event: the bullet is appended to the store with the health the event
\* supplies, or with 100 when it supplies none.
SpawnKeepsHealth(s, data) ==
    LET given == data.events[1].health
        ref == nextEntityId
    IN  (data.events # <<>> /\ Update(s, data)) =>
            /\ entities' = Append(entities, ref)
            /\ objects'[ref].entityId = nextEntityId
            /\ objects'[ref].health = IF given = Undefined THEN 100 ELSE given

\* C14: addEntity sets health to 100 exactly when the entity has none and
\* otherwise keeps the supplied health; it appends the entity to the store.
C14_SpawnDefaultsAbsentHealth ==
    [][\A s \in Sockets : \A data \in SpawnPayloads : SpawnKeepsHealth(s, data)]_vars

\* C15: after the disconnect handler of a session ran, the session is not
\* in users and no entity in the store has the id of its player, also
\* when the player entity had left the store before.
C15_DisconnectRemovesSessionAndPlayer ==
    [][\A s \in Sockets :
        (socketState[s] = "connected" /\ lastOp' = Op("disconnect", s)) =>
            /\ \A k \in 1..Len(users') : users'[k].socket # s
            /\ \A r \in Range(entities') :
                    objects'[r].entityId # objects[UserOf(s).entity].entityId]_vars

\* After a disconnect a remaining session's player, in good health, is
\* missing from the store: the player of the session that disconnected had
\* been removed by a tick before.
C15_Witness ==
    /\ lastOp.op = "disconnect"
    /\ \E k \in 1..Len(users) :
        /\ ~InStore(users[k].entity)
        /\ objects[users[k].entity].health > 0

\* C16: connect adds one session to users and one Player (position (0, 0),
\* health 100, a fresh id) to the store and sends the new session one
\* broadcast, whose currentEntityId is the new id and whose entities hold
\* that Player; the sessions and entities there before are unchanged.
C16_ConnectAddsSessionAndPlayer ==
    [][\A s \in Sockets :
        lastOp' = Op("connect", s) =>
            LET ref == users'[Len(users')].entity
                new == objects'[ref]
            IN  /\ users' = Append(users, [socket |-> s, entity |-> ref, events |-> <<>>])
                /\ ref \notin DOMAIN objects
                /\ entities' = Append(entities, ref)
                /\ \A r \in Range(entities) : objects'[r] = objects[r]
                /\ new.entityType = ENTITY_TYPE_PLAYER
                /\ new.x = 0 /\ new.y = 0 /\ new.health = 100
                /\ new.entityId = nextEntityId
                /\ \A r \in DOMAIN objects : objects[r].entityId # new.entityId
                /\ Len(emitted') = 1
                /\ emitted'[1].socket = s
                /\ emitted'[1].currentEntityId = new.entityId
                /\ InSeq(new, emitted'[1].entities)]_vars

\* Socket 2 has connected to a server with a session and a bullet in flight.
C16_Witness ==
    /\ lastOp = Op("connect", 2)
    /\ Len(users) = 2
    /\ \E b \in Range(entities) : IsType(b, ENTITY_TYPE_BULLET)

\* The step handles the valid update data of socket s: the broadcast that
\* answers it shows the player of s with the payload's position and
\* velocity, every Bullet of the payload as a new entity of that player,
\* and every Message of the payload among its events.
AnswerShowsEffects(s, data) ==
    LET id == objects[UserOf(s).entity].entityId
        m == emitted'[1]
        shown == 1..Len(m.entities)
    IN  (Update(s, data) /\ ~Rejected(data)) =>
            /\ Len(emitted') = 1
            /\ \E i \in shown :
                /\ m.entities[i].entityId = id
                /\ m.entities[i].x = data.x /\ m.entities[i].y = data.y
                /\ m.entities[i].dx = data.dx /\ m.entities[i].dy = data.dy
            /\ \A n \in 1..Len(data.events) :
                data.events[n].entityType = ENTITY_TYPE_BULLET =>
                    \E i \in shown :
                        /\ m.entities[i].entityType = ENTITY_TYPE_BULLET
                        /\ m.entities[i].parentId = id
                        /\ m.entities[i].entityId >= nextEntityId
                        /\ m.entities[i].x = data.events[n].x
                        /\ m.entities[i].y = data.events[n].y
            /\ Cardinality({i \in shown : m.entities[i].entityId >= nextEntityId})
                    = CountType(data.events, ENTITY_TYPE_BULLET)
            /\ \A n \in 1..Len(Submitted(data, id)) :
                    InSeq(Submitted(data, id)[n], m.events)

\* C17: the broadcast that answers a valid update is produced after all of
\* the update's effects: it shows the session's player at the new position
\* and velocity, every Bullet the update spawned and every Message it
\* submitted.
C17_AnswerAfterEffects ==
    [][\A s \in Sockets : \A data \in VolleyPayloads : AnswerShowsEffects(s, data)]_vars

\* C18: once no storage operation is in flight, the count stored under
\* 'games' equals the number of rounds scored, and so does the count a stat
\* request then reports.
C18_GamesCountsScoredRounds ==
    pending = <<>> =>
        /\ Stored = scored
        /\ lastOp.op = "stat" => reported = scored

Bullets == {r \in Range(entities) : IsType(r, ENTITY_TYPE_BULLET)}

\* Whether the entity e lies closer than 8 to where the bullet b is after
\* its advance by (dx, dy).
Within8OfAdvanced(b, e) ==
    HypotLess(Minus(Plus(objects[b].x, objects[b].dx), objects[e].x),
              Minus(Plus(objects[b].y, objects[b].dy), objects[e].y), 8)

\* C19: in a tick that runs one bullet AI step (one bullet in a store of
\* live entities), every entity other than the bullet and its parent that
\* is closer than 8 to the bullet's advanced position loses exactly 10
\* health, all of them and not only the first, and every other entity
\* loses none.
C19_BulletDamagesAllWithin8 ==
    [][(/\ lastOp'.op = "tick"
        /\ Cardinality(Bullets) = 1
        /\ \A r \in Range(entities) : objects[r].health > 0) =>
            \A b \in Bullets : \A e \in Range(entities) \ {b} :
                /\ e \in DOMAIN objects'
                /\ objects'[e].health = objects[e].health -
                        (IF /\ objects[e].entityId # objects[b].parentId
                            /\ Within8OfAdvanced(b, e)
                         THEN 10 ELSE 0)]_vars

\* After a tick: one bullet has struck the first two snakes, which lost 10
\* health each, while the third snake, 15 away, lost none.
C19_Witness ==
    /\ lastOp.op = "tick"
    /\ Bullets = {}
    /\ \E h1, h2 \in hits : h1.bullet = h2.bullet /\ h1.victim = 1 /\ h2.victim = 2
    /\ Cardinality(hits) = 2
    /\ objects[1].health = 10 /\ objects[2].health = 10 /\ objects[3].health = 20

\* Whether the scan of bullet b recorded a collision in the step.
HitSomething(b) == \E h \in hits' : h.bullet = objects[b].entityId

Strikes(b) == Cardinality({h \in hits' : h.victim = objects[b].entityId})

\* The objects that may be bullets in SpecFlight.
FlightRefs == 6..FlightMaxId

Sign(n) == IF n > 0 THEN 1 ELSE IF n < 0 THEN -1 ELSE 0

\* The entities in the store that carry the spider's target id.
Targets(sp) ==
    {p \in Range(entities) : objects[p].entityId = objects[sp].aggroEntityId}

\* C21: in every tick in which its target is in the store, a spider moves
\* by sign(target - self) on each axis, 0 on an axis where they are equal:
\* so it closes in on a target that stands still by one step per tick on
\* every axis it is off, and stays once it is there.
C21_SpiderStepsBySign ==
    [][lastOp'.op = "tick" =>
        \A sp \in Spiders : \A p \in Targets(sp) :
            /\ objects'[sp].x = objects[sp].x + Sign(objects[p].x - objects[sp].x)
            /\ objects'[sp].y = objects[sp].y + Sign(objects[p].y - objects[sp].y)]_vars

\* After a tick the spider stands where its target stands, three steps to
\* the right of and two steps above its spawn point.
C21_Witness ==
    /\ lastOp.op = "tick"
    /\ \E sp \in Spiders : \E p \in Targets(sp) :
        /\ objects[sp].x = 223 /\ objects[sp].y = 68
        /\ objects[p].x = 223 /\ objects[p].y = 68

\* The square of the distance between two entities.
Dist2(a, b) ==
    (objects[a].x - objects[b].x) * (objects[a].x - objects[b].x)
        + (objects[a].y - objects[b].y) * (objects[a].y - objects[b].y)

\* Whether no Player within 40 of the spider is nearer than p, nor as near
\* and earlier in the store.
NearestFirst(sp, p) ==
    \A q \in PlayersWithin(sp, 40) :
        \/ Dist2(sp, p) < Dist2(sp, q)
        \/ Dist2(sp, p) = Dist2(sp, q)
                /\ IndexOf(entities, p) <= IndexOf(entities, q)

\* C22: a spider without a target that has Players within 40 acquires the
\* nearest of them, and of several nearest ones the first in store order;
\* what it acquires is a Player and not itself.
C22_AcquiresNearestFirstInStore ==
    [][lastOp'.op = "tick" =>
        \A sp \in Spiders :
            (objects[sp].aggroEntityId = Undefined /\ PlayersWithin(sp, 40) # {}) =>
                \E p \in PlayersWithin(sp, 40) :
                    /\ NearestFirst(sp, p)
                    /\ p # sp
                    /\ objects'[sp].aggroEntityId = objects[p].entityId]_vars

\* After a tick the spider, still at its spawn point, targets the first of
\* two Players that stand at the same distance from it, while a snake is
\* within 40 of it too.
C22_Witness ==
    /\ lastOp.op = "tick"
    /\ \E sp \in Spiders : \E p \in Targets(sp) : \E q \in Range(entities) :
        /\ objects[sp].x = 220 /\ objects[sp].y = 70
        /\ IsType(q, ENTITY_TYPE_PLAYER)
        /\ q # p
        /\ Dist2(sp, p) = Dist2(sp, q)
        /\ IndexOf(entities, p) < IndexOf(entities, q)
        /\ \E c \in Range(entities) :
            IsType(c, ENTITY_TYPE_SNAKE) /\ Dist2(sp, c) < 40 * 40

\* The step handles a valid update of socket s: what it adds to the
\* store, to the other queues and, beyond the queue of s as it stood, to
\* the broadcast of s carries the id of the player of s as parentId.
StampsSender(s) ==
    LET k == userIndex(Cur, s)
        id == objects[users[k].entity].entityId
    IN  lastOp' = Op("update", s) =>
            /\ \A r \in Range(entities') \ Range(entities) :
                    objects'[r].parentId = id
            /\ \A i \in 1..Len(emitted'[1].events) :
                    i > Len(users[k].events) => emitted'[1].events[i].parentId = id
            /\ \A k2 \in 1..Len(users') : \A i \in 1..Len(users'[k2].events) :
                    (k2 # k /\ i > Len(users[k2].events)) =>
                        users'[k2].events[i].parentId = id

\* C23: a Bullet spawned and a Message queued from a client event carry
\* the id of the sender's player as parentId, whatever ids the client put
\* in the event, and an entity in the store keeps its parentId.
C23_ParentIdIsSenders ==
    [][/\ \A s \in Sockets : StampsSender(s)
       /\ \A r \in Range(entities) \cap Range(entities') :
            objects'[r].parentId = objects[r].parentId]_vars

\* Socket 2, whose events claim the id of the player of socket 1, has
\* spawned a Bullet and sent a Message that carry the id of its own player.
C23_Witness ==
    /\ lastOp = Op("update", 2)
    /\ Len(users) = 2
    /\ objects[users[1].entity].entityId = 5
    /\ \E b \in Bullets : objects[b].parentId = objects[UserOf(2).entity].entityId
    /\ \E i \in 1..Len(emitted[1].events) :
            emitted[1].events[i].parentId = objects[UserOf(2).entity].entityId

IsBullet(e) == e.entityType = ENTITY_TYPE_BULLET

\* The step handles the valid update data of socket s: the store gains
\* one entity per Bullet event, in order, and nothing else; what is queued
\* or sent gains one entry per Message event, in order, and nothing else.
DispatchedByType(s, data) ==
    LET k == userIndex(Cur, s)
        id == objects[users[k].entity].entityId
        shots == SelectSeq(data.events, IsBullet)
        sub == Submitted(data, id)
        n == Len(entities)
    IN  (lastOp' = Op("update", s) /\ Update(s, data)) =>
            /\ Len(entities') = n + Len(shots)
            /\ SubSeq(entities', 1, n) = entities
            /\ \A j \in 1..Len(shots) :
                    LET e == objects'[entities'[n + j]]
                    IN  /\ e.entityType = ENTITY_TYPE_BULLET
                        /\ e.entityId = nextEntityId + j - 1
                        /\ e.x = shots[j].x /\ e.y = shots[j].y
                        /\ e.dx = shots[j].dx /\ e.dy = shots[j].dy
            /\ emitted'[1].events = users[k].events \o sub
            /\ \A k2 \in 1..Len(users) :
                    k2 # k => users'[k2].events = users[k2].events \o sub

\* C24: client events are dispatched by type alone: a Bullet event adds
\* one entity to the store and nothing to a queue, a Message event adds one
\* entry to the queue of every session and nothing to the store, and an
\* event of another type changes neither.
C24_DispatchedByType ==
    [][\A s \in Sockets : \A data \in DispatchPayloads :
            DispatchedByType(s, data)]_vars

\* Socket 1 has sent a Bullet and a Message while socket 2 is connected:
\* the store ends with the new Bullet, and the broadcast of socket 1 and
\* the queue of socket 2 each hold the one Message.
C24_Witness ==
    /\ lastOp = Op("update", 1)
    /\ Len(users) = 2
    /\ IsType(entities[Len(entities)], ENTITY_TYPE_BULLET)
    /\ objects[entities[Len(entities)]].entityId = nextEntityId - 1
    /\ objects[entities[Len(entities)]].health = 1
    /\ Len(emitted[1].events) = 1
    /\ IsMessage(emitted[1].events[1])
    /\ users[2].events = emitted[1].events

\* The number of times the tick that starts in this state visits ref.
VisitCount(ref) ==
    LET seen == tickVisits(Cur, Len(entities))
    IN  Cardinality({j \in 1..Len(seen) : seen[j] = ref})

\* C25: a tick visits every entity that is in the store when it starts
\* exactly once and nothing else, whatever it removes on its way down the
\* store; a Bullet it leaves in the store has moved by its velocity once.
C25_EachEntityVisitedOnce ==
    [][lastOp'.op = "tick" =>
        /\ Len(tickVisits(Cur, Len(entities))) = Len(entities)
        /\ \A ref \in Range(entities) : VisitCount(ref) = 1
        /\ \A b \in Bullets :
                b \in Range(entities') =>
                    /\ objects'[b].x = Plus(objects[b].x, objects[b].dx)
                    /\ objects'[b].y = Plus(objects[b].y, objects[b].dy)]_vars

\* A tick has removed two Bullets or more and then a snake they hit from
\* the store, and has left the spider and a Player that were stored
\* between them.
C25_Witness ==
    /\ lastOp.op = "tick"
    /\ \E h \in hits : \E t \in 1..Len(timers) :
            objects[timers[t]].entityId = h.victim
    /\ \E h1, h2 \in hits : h1.bullet # h2.bullet
    /\ \A h \in hits : \A r \in Range(entities) : objects[r].entityId # h.bullet
    /\ \E i \in 1..Len(entities) : IsType(entities[i], ENTITY_TYPE_SPIDER)
    /\ \E i \in 1..Len(entities) : IsType(entities[i], ENTITY_TYPE_PLAYER)

IsPrefix(p, q) == Len(p) <= Len(q) /\ SubSeq(q, 1, Len(p)) = p

\* What q holds beyond its first n entries.
Beyond(q, n) == SubSeq(q, n + 1, Len(q))

\* What is queued for a session stays in its order and ahead of what is
\* queued later: the queue grows at its end, or a broadcast to the session
\* carries it from the start and leaves the queue empty.
OrderKept ==
    \A k \in 1..Len(users) :
        LET u == users[k].socket
            q == users[k].events
        IN  \/ socketState'[u] = "disconnected"
            \/ /\ emitted' = <<>> \/ emitted'[1].socket # u
               /\ \E k2 \in 1..Len(users') :
                    users'[k2].socket = u /\ IsPrefix(q, users'[k2].events)
            \/ /\ Len(emitted') = 1
               /\ emitted'[1].socket = u
               /\ IsPrefix(q, emitted'[1].events)
               /\ \E k2 \in 1..Len(users') :
                    users'[k2].socket = u /\ users'[k2].events = <<>>

\* The step handles the valid update data of socket s: every session gets
\* the Messages of the payload in the order of the payload, the sender in
\* its broadcast and the others in their queues.
SameOrderForAll(s, data) ==
    LET k == userIndex(Cur, s)
        sub == Submitted(data, objects[users[k].entity].entityId)
    IN  (lastOp' = Op("update", s) /\ Update(s, data)) =>
            /\ Beyond(emitted'[1].events, Len(users[k].events)) = sub
            /\ \A k2 \in 1..Len(users) :
                    k2 # k => Beyond(users'[k2].events, Len(users[k2].events)) = sub

\* C26: Messages reach every session in the order in which the server
\* handled them, from one broadcast to the next and within a broadcast.
C26_MessagesInSubmissionOrder ==
    [][/\ OrderKept
       /\ \A s \in Sockets : \A data \in OrderPayloads : SameOrderForAll(s, data)]_vars

\* A broadcast to socket 2 carries, in this order, a Message that socket 1
\* sent earlier and a different one that socket 2 has just sent.
C26_Witness ==
    /\ lastOp = Op("update", 2)
    /\ Len(emitted) = 1
    /\ Len(emitted[1].events) = 2
    /\ Len(users) = 2
    /\ users[1].socket = 1
    /\ emitted[1].events[1].parentId = objects[users[1].entity].entityId
    /\ emitted[1].events[1].text = "hi"
    /\ emitted[1].events[2].parentId = objects[users[2].entity].entityId
    /\ emitted[1].events[2].text = "yo"
    /\ users[1].events = <<emitted[1].events[2]>>

\* The store entries that hold a snake or a spider.
CreatureEntries ==
    {i \in 1..Len(entities) : Respawns(objects[entities[i]].entityType)}

\* C27: the snakes and spiders in the store and those that wait for their
\* respawn are 4 together, in every reachable state.
C27_CreaturesConserved == Cardinality(CreatureEntries) + Len(timers) = 4

\* C28: the player of a session that stays connected leaves the store only
\* in a tick that finds its health at 0 or below, never in the disconnect
\* of another session.
C28_DisconnectSparesOtherPlayers ==
    [][\A k \in 1..Len(users) :
        (/\ InStore(users[k].entity)
         /\ users[k].entity \notin Range(entities')
         /\ socketState'[users[k].socket] = "connected") =>
            /\ lastOp'.op = "tick"
            /\ objects'[users[k].entity].health <= 0]_vars

\* C29: the currentEntityId of every broadcast is the id of a Player in the
\* entities of that broadcast.
C29_BroadcastHoldsOwnPlayer ==
    \A j \in 1..Len(emitted) :
        \E i \in 1..Len(emitted[j].entities) :
            /\ emitted[j].entities[i].entityId = emitted[j].currentEntityId
            /\ emitted[j].entities[i].entityType = ENTITY_TYPE_PLAYER

\* C30: every Player in the store is the player entity of a session in the
\* registry.
C30_NoOrphanPlayers ==
    \A r \in Range(entities) :
        IsType(r, ENTITY_TYPE_PLAYER) =>
            \E k \in 1..Len(users) : users[k].entity = r

\* A session has disconnected and the store still holds the Player of the
\* session that remains.
C30_Witness ==
    /\ lastOp.op = "disconnect"
    /\ Len(users) = 1
    /\ InStore(users[1].entity)
    /\ IsType(users[1].entity, ENTITY_TYPE_PLAYER)

\* Whether no value is at two places of the sequence q.
Distinct(q) == \A i, j \in 1..Len(q) : q[i] = q[j] => i = j

\* The snakes and spiders that are in the store before the step and not
\* after it.
RemovedCreatures ==
    {r \in Range(entities) :
        Respawns(objects[r].entityType) /\ r \notin Range(entities')}

\* C31: an entity is in the store at most once and never while a respawn
\* for it is pending; a tick schedules one respawn for every snake or
\* spider it removes and no other, a respawn that fires is no longer
\* pending and puts its entity back, and nothing else changes what is
\* pending.
C31_OneRespawnPerRemoval ==
    /\ [](/\ Distinct(entities)
          /\ Distinct(timers)
          /\ Range(entities) \cap Range(timers) = {})
    /\ [][/\ lastOp'.op = "tick" =>
                /\ IsPrefix(timers, timers')
                /\ Len(timers') = Len(timers) + Cardinality(RemovedCreatures)
                /\ \A r \in RemovedCreatures : InSeq(r, timers')
          /\ lastOp'.op = "respawn" =>
                /\ timers' = Tail(timers)
                /\ InSeq(Head(timers), entities')
          /\ lastOp'.op \notin {"tick", "respawn"} => timers' = timers]_vars

\* A respawn has put a creature back under a new id while the respawn of
\* another creature is still pending.
C31_Witness ==
    /\ lastOp.op = "respawn"
    /\ timers # <<>>
    /\ Respawns(objects[entities[Len(entities)]].entityType)
    /\ objects[entities[Len(entities)]].entityId > 4
    /\ objects[entities[Len(entities)]].health = 20

\* C32: a spider that has a target keeps it through every step, ticks
\* included, that starts with the target in the store and leaves the spider
\* in the store, wherever the target and the other Players stand.
C32_SpiderKeepsTarget ==
    [][\A sp \in Spiders :
        (/\ objects[sp].aggroEntityId # Undefined
         /\ Targets(sp) # {}
         /\ sp \in Range(entities')) =>
            objects'[sp].aggroEntityId = objects[sp].aggroEntityId]_vars

\* After a tick the spider still targets a Player that has moved out of
\* its range of 40, while another Player stands within that range.
C32_Witness ==
    /\ lastOp.op = "tick"
    /\ \E sp \in Spiders : \E p \in Targets(sp) : \E q \in PlayersWithin(sp, 40) :
        /\ q # p
        /\ Dist2(sp, p) >= 40 * 40
        /\ objects[sp].y < 70

\* The update messages in flight between socket s and the server.
InFlight(s) == Len(wire[s].down) + Len(wire[s].up)

\* C33: a client sends one update for each broadcast it receives and the
\* server one broadcast for each update, so that one update message is in
\* flight for a connected session at any time, never more and never none,
\* and the server answers an update of the session again and again for as
\* long as the session stays connected.
C33_StrictAlternation ==
    /\ [](\A s \in Sockets :
            InFlight(s) = IF socketState[s] = "connected" THEN 1 ELSE 0)
    /\ [][\A s \in Sockets :
            /\ lastOp' = Op("receive", s) =>
                    /\ Len(wire'[s].up) = Len(wire[s].up) + 1
                    /\ Len(wire'[s].down) = Len(wire[s].down) - 1
            /\ lastOp' = Op("update", s) =>
                    /\ Len(wire'[s].down) = Len(wire[s].down) + 1
                    /\ Len(wire'[s].up) = Len(wire[s].up) - 1
            /\ lastOp'.socket # s => wire'[s] = wire[s]]_vars
    /\ \A s \in Sockets :
            []<>(socketState[s] # "connected" \/ lastOp = Op("update", s))

\* The server has answered an update of socket 1, whose player has moved,
\* while an update of socket 2 is on its way to the server.
C33_Witness ==
    /\ lastOp = Op("update", 1)
    /\ Len(wire[1].down) = 1
    /\ Len(wire[2].up) = 1
    /\ Len(users) = 2
    /\ objects[users[1].entity].x = 18
    /\ objects[users[2].entity].x = 16

\* The connected users of the rock-paper-scissors server.
Connected == Range(rpsUsers)

\* The connected users without an opponent.
Waiting == {u \in Connected : rpsObjects[u].opponent = 0}

\* C34: the pairing is symmetric: the opponent of a connected user is
\* another connected user, whose opponent is that user and whose game is
\* the same Game.
C34_PairingSymmetric ==
    \A u \in Connected :
        LET o == rpsObjects[u].opponent
        IN  o # 0 =>
                /\ o # u
                /\ o \in Connected
                /\ rpsObjects[o].opponent = u
                /\ rpsObjects[u].game # NoGame
                /\ rpsObjects[o].game = rpsObjects[u].game
                /\ {rpsObjects[u].game.user1, rpsObjects[u].game.user2} = {u, o}

\* A matched user has disconnected and its opponent has been matched with
\* the user that was waiting.
C34_Witness ==
    /\ lastOp.op = "rpsDisconnect"
    /\ Len(rpsUsers) = 2
    /\ Waiting = {}
    /\ \E i \in 1..Len(rpsEmitted) : rpsEmitted[i].event = "end"

\* C35: at most one connected user is without an opponent.
C35_AtMostOneWaiting == Cardinality(Waiting) <= 1

\* A third user has connected while the two others play: it waits.
C35_Witness ==
    /\ lastOp.op = "rpsConnect"
    /\ Len(rpsUsers) = 3
    /\ Cardinality(Waiting) = 1

Choices == {GUESS_ROCK, GUESS_PAPER, GUESS_SCISSORS}

\* The result of the guess mine against the guess theirs: each choice
\* beats the one before it in the cycle rock, paper, scissors.
Outcome(mine, theirs) ==
    IF mine = theirs THEN "draw"
    ELSE IF (mine - theirs) % 3 = 1 THEN "win"
    ELSE "lose"

\* C36: a round scored on two guesses out of rock, paper and scissors
\* sends each of the two players one result, with the guess of its
\* opponent: win to the one whose guess beats the other's and lose to the
\* other, or draw to both when the guesses are equal.
C36_ScoreByCycle ==
    [][\A s \in RpsSockets :
        (lastOp' = Op("guess", s) /\ scored' = scored + 1) =>
            LET o == rpsObjects[s].opponent
                rs == SelectSeq(rpsEmitted',
                        LAMBDA m : m.socket = s /\ m.event \in {"win", "lose", "draw"})
                ro == SelectSeq(rpsEmitted',
                        LAMBDA m : m.socket = o /\ m.event \in {"win", "lose", "draw"})
            IN  /\ Len(rs) = 1
                /\ Len(ro) = 1
                /\ rs[1].arg = rpsObjects[o].guess
                /\ (rs[1].arg \in Choices /\ ro[1].arg \in Choices) =>
                        /\ rs[1].event = Outcome(ro[1].arg, rs[1].arg)
                        /\ ro[1].event = Outcome(rs[1].arg, ro[1].arg)]_vars

\* Rock has met scissors: the one player was sent win with the guess
\* scissors, the other lose with the guess rock.
C36_Witness ==
    /\ lastOp.op = "guess"
    /\ \E i, j \in 1..Len(rpsEmitted) :
        /\ rpsEmitted[i].event = "win" /\ rpsEmitted[i].arg = GUESS_SCISSORS
        /\ rpsEmitted[j].event = "lose" /\ rpsEmitted[j].arg = GUESS_ROCK
        /\ rpsEmitted[i].socket # rpsEmitted[j].socket

\* The step handles the guess of socket s: without an opponent, or with a
\* guess that is none of 1, 2, 3, nothing changes and nothing is sent;
\* otherwise the guess is recorded, or the round is scored.
GuessChecked(s, guess) ==
    (lastOp' = Op("guess", s) /\ RpsGuess(s, guess)) =>
        IF rpsObjects[s].opponent = 0 \/ guess \notin Choices
        THEN /\ rpsObjects' = rpsObjects
             /\ rpsEmitted' = <<>>
             /\ scored' = scored
        ELSE \/ scored' = scored + 1
             \/ /\ scored' = scored
                /\ rpsObjects' = [rpsObjects EXCEPT ![s].guess = guess]

\* C37: setGuess rejects a guess of a user without an opponent and a guess
\* that is none of 1, 2, 3: the user's guess stays as it is and no round is
\* scored; any other guess is recorded in place of an earlier one.
C37_GuessRejectedUnlessChoice ==
    [][\A s \in RpsSockets : \A guess \in GuessInputs : GuessChecked(s, guess)]_vars

IsResult(m) == m.event \in {"win", "lose", "draw"}

\* C38: a round is scored when a guess arrives that leaves both players of
\* the game with a guess out of 1, 2, 3, and at no other time: each player
\* is then sent one result and after it start, and both guesses are none
\* again; no other step sends a result.
C38_RoundScoredOnce ==
    [][/\ scored' # scored =>
            /\ lastOp'.op = "guess"
            /\ scored' = scored + 1
            /\ LET s == lastOp'.socket
                   o == rpsObjects[s].opponent
               IN  /\ o # 0
                   /\ rpsObjects[o].guess \in Choices
                   /\ Len(rpsEmitted') = 4
                   /\ IsResult(rpsEmitted'[1]) /\ IsResult(rpsEmitted'[2])
                   /\ {rpsEmitted'[1].socket, rpsEmitted'[2].socket} = {s, o}
                   /\ \A i \in {1, 2} : rpsEmitted'[i].arg \in Choices
                   /\ rpsEmitted'[3].event = "start" /\ rpsEmitted'[4].event = "start"
                   /\ {rpsEmitted'[3].socket, rpsEmitted'[4].socket} = {s, o}
                   /\ rpsObjects'[s].guess = GUESS_NO
                   /\ rpsObjects'[o].guess = GUESS_NO
       /\ scored' = scored =>
            \A i \in 1..Len(rpsEmitted') : ~IsResult(rpsEmitted'[i])
       /\ \A s \in RpsSockets :
            (/\ lastOp' = Op("guess", s)
             /\ rpsObjects[s].opponent # 0
             /\ rpsObjects'[s].guess # rpsObjects[s].guess) =>
                (scored' = scored <=> rpsObjects[rpsObjects[s].opponent].guess = GUESS_NO)]_vars

\* C39: when a matched user disconnects it leaves users, its opponent is
\* sent end and is then matched with the user that waits, if one does,
\* and is left without game, opponent and guess otherwise; no connected
\* user has the user that left as its opponent.
C39_DisconnectFreesOpponent ==
    [][\A s \in RpsSockets :
        (lastOp' = Op("rpsDisconnect", s) /\ rpsObjects[s].opponent # 0) =>
            LET o == rpsObjects[s].opponent
                free == Waiting \ {s}
            IN  /\ s \notin Range(rpsUsers')
                /\ Range(rpsUsers') = Connected \ {s}
                /\ rpsEmitted'[1] = [socket |-> o, event |-> "end", arg |-> Undefined]
                /\ \A u \in Range(rpsUsers') : rpsObjects'[u].opponent # s
                /\ rpsObjects'[o].guess = GUESS_NO
                /\ IF free = {}
                   THEN /\ rpsObjects'[o] = NewUser
                        /\ Len(rpsEmitted') = 1
                   ELSE /\ rpsObjects'[o].opponent \in free
                        /\ rpsObjects'[rpsObjects'[o].opponent].opponent = o
                        /\ Len(rpsEmitted') = 3
                        /\ rpsEmitted'[2].event = "start"
                        /\ rpsEmitted'[3].event = "start"
                        /\ {rpsEmitted'[2].socket, rpsEmitted'[3].socket}
                                = {o, rpsObjects'[o].opponent}]_vars

\* User 1, who had guessed against user 2, has disconnected: user 2 was
\* sent end and then start, for its new game with user 3.
C39_Witness ==
    /\ lastOp = Op("rpsDisconnect", 1)
    /\ rpsUsers = <<2, 3>>
    /\ Len(rpsEmitted) = 3
    /\ rpsEmitted[1].socket = 2
    /\ rpsObjects[2].opponent = 3
    /\ rpsObjects[1].guess # GUESS_NO
    /\ scored > 0

====
